---- MODULE Spec2Model ----
(***************************************************************************)
(* Model of src/src/chunking.py: IntelligentChunker (chunk_text,           *)
(* _process_section, _smart_split) and extract_code_blocks.                *)
(*                                                                         *)
(* A Python str is a sequence of one-character strings.  Python offsets    *)
(* are 0-based and are kept 0-based here: offset p is element p + 1.       *)
(* A TLA+ string cannot hold the backtick, so that one character is        *)
(* written BT == "BT"; every other character is its own one-character      *)
(* string.                                                                 *)
(***************************************************************************)
EXTENDS Integers, Sequences, FiniteSets, TLC

(***************************************************************************)
(* Characters and str helpers                                              *)
(***************************************************************************)
NL == "\n"
SP == " "
BT == "BT"
HASH == "#"
DOT == "."

\* whitespace characters a string of this module cannot hold as they are,
\* each under a name: U+000B, U+001C to U+001F, U+0085 and U+00A0
VT == "VT"
FS == "FS"
GS == "GS"
RS == "RS"
US == "US"
NEL == "NEL"
NBSP == "NBSP"

\* the whitespace characters above U+00FF, each under its code point
UnicodeSpaces ==
    { "U+1680", "U+2000", "U+2001", "U+2002", "U+2003", "U+2004", "U+2005",
      "U+2006", "U+2007", "U+2008", "U+2009", "U+200A", "U+2028", "U+2029",
      "U+202F", "U+205F", "U+3000" }

\* the characters str.strip() removes and the regex class \s matches: those
\* for which str.isspace() is true
Whitespace ==
    {" ", "\n", "\t", "\r", "\f", VT, FS, GS, RS, US, NEL, NBSP} \cup UnicodeSpaces

FENCE == <<BT, BT, BT>>
PARA == <<NL, NL>>
SENT == <<DOT, SP>>

Min2(a, b) == IF a <= b THEN a ELSE b
Max2(a, b) == IF a >= b THEN a ELSE b

\* s[a:b] for 0 <= a, 0 <= b
Slice(s, a, b) == SubSeq(s, a + 1, Min2(b, Len(s)))

\* s[a:]
SliceFrom(s, a) == SubSeq(s, a + 1, Len(s))

\* pat occurs in s at offset i
MatchAt(s, pat, i) ==
    /\ i >= 0
    /\ i + Len(pat) <= Len(s)
    /\ \A k \in 1..Len(pat) : s[i + k] = pat[k]

\* s.startswith(p)
startswith(s, p) == MatchAt(s, p, 0)

\* s.rfind(pat): the highest offset of an occurrence, -1 if there is none
rfind(s, pat) ==
    LET hi == Len(s) - Len(pat)
    IN  IF \E i \in 0..hi : MatchAt(s, pat, i)
        THEN CHOOSE i \in 0..hi :
                 /\ MatchAt(s, pat, i)
                 /\ \A j \in (i + 1)..hi : ~MatchAt(s, pat, j)
        ELSE -1

\* s.find(pat, pos): the lowest offset >= pos of an occurrence, -1 if none
find(s, pat, pos) ==
    LET hi == Len(s) - Len(pat)
    IN  IF \E i \in pos..hi : MatchAt(s, pat, i)
        THEN CHOOSE i \in pos..hi :
                 /\ MatchAt(s, pat, i)
                 /\ \A j \in pos..(i - 1) : ~MatchAt(s, pat, j)
        ELSE -1

\* s.strip()
strip(s) ==
    IF \A i \in 1..Len(s) : s[i] \in Whitespace
    THEN << >>
    ELSE LET lo == CHOOSE i \in 1..Len(s) :
                       /\ s[i] \notin Whitespace
                       /\ \A j \in 1..(i - 1) : s[j] \in Whitespace
             hi == CHOOSE i \in 1..Len(s) :
                       /\ s[i] \notin Whitespace
                       /\ \A j \in (i + 1)..Len(s) : s[j] \in Whitespace
         IN  SubSeq(s, lo, hi)

\* s.split('\n'): the lines of s, always at least one
RECURSIVE SplitFrom(_, _)
SplitFrom(s, from) ==
    LET nl == find(s, <<NL>>, from)
    IN  IF nl = -1
        THEN << SliceFrom(s, from) >>
        ELSE << Slice(s, from, nl) >> \o SplitFrom(s, nl + 1)

split(s) == SplitFrom(s, 0)

\* '\n'.join(ls)
RECURSIVE join(_)
join(ls) ==
    IF ls = << >> THEN << >>
    ELSE IF Len(ls) = 1 THEN ls[1]
    ELSE ls[1] \o <<NL>> \o join(Tail(ls))

(***************************************************************************)
(* IntelligentChunker._smart_split, chunking.py:82-145                     *)
(***************************************************************************)

\* header_prefix of chunking.py:71 and :92
header_prefix(header) == IF header # << >> THEN header \o <<NL>> ELSE << >>

\* safe_chunk_size without the header subtracted
safe_chunk_size_NoHeader(chunk_size, context_header) == chunk_size

\* safe_chunk_size without the newline of the prefix
safe_chunk_size_NoNewline(chunk_size, context_header) ==
    LET safe == chunk_size - Len(context_header)
    IN  IF safe <= 0 THEN chunk_size ELSE safe

\* safe_chunk_size, chunking.py:93-95
safe_chunk_size(chunk_size, context_header) ==
    LET safe == chunk_size - Len(header_prefix(context_header))
    IN  IF safe <= 0 THEN chunk_size ELSE safe

\* Above30 without the threshold
Above30_NoThreshold(split_idx, safe) == split_idx # -1

\* Above30 accepting a match at the threshold
Above30_Inclusive(split_idx, safe) == split_idx # -1 /\ 10 * split_idx >= 3 * safe

\* split_idx > safe_chunk_size * 0.3 (a float product; it agrees with the
\* exact comparison for every budget below 3000)
Above30(split_idx, safe) == split_idx # -1 /\ 10 * split_idx > 3 * safe

\* Above10 with the threshold of the other heuristics
Above10_AsAbove30(split_idx, safe) == split_idx # -1 /\ 10 * split_idx > 3 * safe

\* split_idx > safe_chunk_size * 0.1
Above10(split_idx, safe) == split_idx # -1 /\ 10 * split_idx > safe

\* CutOffset with the paragraph break tried before the fence
CutOffset_ParagraphFirst(window, safe) ==
    LET fence == rfind(window, FENCE)
        para  == rfind(window, PARA)
        sent  == rfind(window, SENT)
        line  == rfind(window, <<NL>>)
        space == rfind(window, <<SP>>)
    IN  IF Above30(para, safe) THEN para
        ELSE IF Above30(fence, safe) THEN fence
        ELSE IF Above30(sent, safe) THEN sent + 1
        ELSE IF Above30(line, safe) THEN line
        ELSE IF Above10(space, safe) THEN space
        ELSE safe

\* CutOffset with the sentence cut put at the match, before the period
CutOffset_SentenceAtMatch(window, safe) ==
    LET fence == rfind(window, FENCE)
        para  == rfind(window, PARA)
        sent  == rfind(window, SENT)
        line  == rfind(window, <<NL>>)
        space == rfind(window, <<SP>>)
    IN  IF Above30(fence, safe) THEN fence
        ELSE IF Above30(para, safe) THEN para
        ELSE IF Above30(sent, safe) THEN sent
        ELSE IF Above30(line, safe) THEN line
        ELSE IF Above10(space, safe) THEN space
        ELSE safe

\* the offset in the window at which chunking.py:113-135 puts the cut; the
\* window's length (= safe) when no heuristic is accepted
CutOffset(window, safe) ==
    LET fence == rfind(window, FENCE)
        para  == rfind(window, PARA)
        sent  == rfind(window, SENT)
        line  == rfind(window, <<NL>>)
        space == rfind(window, <<SP>>)
    IN  IF Above30(fence, safe) THEN fence
        ELSE IF Above30(para, safe) THEN para
        ELSE IF Above30(sent, safe) THEN sent + 1
        ELSE IF Above30(line, safe) THEN line
        ELSE IF Above10(space, safe) THEN space
        ELSE safe

\* SplitIteration with the cursor put one past the cut
SplitIteration_SkipOne(text, start, safe) ==
    IF start + safe >= Len(text)
    THEN [end |-> Len(text), last |-> TRUE, chunk |-> strip(SliceFrom(text, start))]
    ELSE LET end == start + CutOffset(Slice(text, start, start + safe), safe)
         IN  [end |-> end + 1, last |-> FALSE, chunk |-> strip(Slice(text, start, end))]

\* one iteration of the while loop with start < text_length,
\* chunking.py:98-143: the new `end`, whether the loop breaks, and the
\* trimmed piece (appended when non-empty)
SplitIteration(text, start, safe) ==
    IF start + safe >= Len(text)
    THEN [end |-> Len(text), last |-> TRUE, chunk |-> strip(SliceFrom(text, start))]
    ELSE LET end == start + CutOffset(Slice(text, start, start + safe), safe)
         IN  [end |-> end, last |-> FALSE, chunk |-> strip(Slice(text, start, end))]

\* AppendIf without the test `if chunk:`
AppendIf_Always(chunks, chunk) == Append(chunks, chunk)

\* `if chunk: chunks.append(chunk)`, chunking.py:104-105 and :139-140
AppendIf(chunks, chunk) == IF chunk # << >> THEN Append(chunks, chunk) ELSE chunks

RECURSIVE SmartSplitLoop(_, _, _, _)
SmartSplitLoop(text, start, safe, chunks) ==
    IF ~(start < Len(text)) THEN chunks
    ELSE LET it == SplitIteration(text, start, safe)
         IN  IF it.last THEN AppendIf(chunks, it.chunk)
             ELSE SmartSplitLoop(text, it.end, safe, AppendIf(chunks, it.chunk))

_smart_split(chunk_size, text, context_header) ==
    SmartSplitLoop(text, 0, safe_chunk_size(chunk_size, context_header), << >>)

(***************************************************************************)
(* IntelligentChunker._process_section, chunking.py:57-80                  *)
(***************************************************************************)

\* Inject without the injection
Inject_Never(i, chunk, current_header) == chunk

\* Inject with the injection starting one sub-chunk late
Inject_FromThird(i, chunk, current_header) ==
    IF i > 1 /\ current_header # << >> /\ ~startswith(chunk, current_header)
    THEN header_prefix(current_header) \o chunk
    ELSE chunk

\* Inject without the test that the chunk already starts with the header
Inject_Always(i, chunk, current_header) ==
    IF i > 0 /\ current_header # << >>
    THEN header_prefix(current_header) \o chunk
    ELSE chunk

\* the chunk emitted for sub-chunk i (0-based), chunking.py:77-80
Inject(i, chunk, current_header) ==
    IF i > 0 /\ current_header # << >> /\ ~startswith(chunk, current_header)
    THEN header_prefix(current_header) \o chunk
    ELSE chunk

\* the for loop of chunking.py:75-80
InjectAll(sub_chunks, current_header) ==
    [i \in 1..Len(sub_chunks) |-> Inject(i - 1, sub_chunks[i], current_header)]

\* Fits with a strict comparison
Fits_Strict(section_text, chunk_size) == Len(section_text) < chunk_size

\* len(section_text) <= self.chunk_size, chunking.py:62
Fits(section_text, chunk_size) == Len(section_text) <= chunk_size

\* chunks_output after the call
_process_section(chunk_size, section_text, current_header, chunks_output) ==
    IF Fits(section_text, chunk_size)
    THEN Append(chunks_output, section_text)
    ELSE chunks_output \o
         InjectAll(_smart_split(chunk_size, section_text, current_header), current_header)

(***************************************************************************)
(* IntelligentChunker.chunk_text, chunking.py:14-55                        *)
(***************************************************************************)

\* line.strip().startswith('```'), chunking.py:27
IsFenceLine(line) == startswith(strip(line), FENCE)

\* header_match without the limit of six '#'
header_match_AnyLevel(line) ==
    \E n \in 1..Len(line) :
        /\ n < Len(line)
        /\ \A k \in 1..n : line[k] = HASH
        /\ line[n + 1] \in Whitespace

\* re.match(r"^(#{1,6})\s+(.*)$", line), chunking.py:33: one to six '#' at
\* column 0 and then a whitespace character
header_match(line) ==
    \E n \in 1..6 :
        /\ n < Len(line)
        /\ \A k \in 1..n : line[k] = HASH
        /\ line[n + 1] \in Whitespace

\* StartsSection without the fence state
StartsSection_IgnoreFence(in_code_block, line) == header_match(line)

\* StartsSection for top-level headers only: a line of two or more '#' is
\* left in the section under way
StartsSection_TopLevelOnly(in_code_block, line) ==
    ~in_code_block /\ header_match(line) /\ Len(line) > 1 /\ line[2] # HASH

\* `not in_code_block and header_match`, chunking.py:35
StartsSection(in_code_block, line) == ~in_code_block /\ header_match(line)

\* SectionText without the trim
SectionText_NoTrim(current_section) == join(current_section)

\* '\n'.join(current_section).strip(), chunking.py:39 and :51
SectionText(current_section) == strip(join(current_section))

\* the loop state before the first line, chunking.py:18-23
ScanInit ==
    [current_section |-> << >>, current_header |-> << >>,
     in_code_block |-> FALSE, chunks |-> << >>]

\* the loop body for one line, chunking.py:25-48
ScanLine(chunk_size, st, line) ==
    IF IsFenceLine(line)
    THEN [st EXCEPT !.in_code_block = ~st.in_code_block,
                    !.current_section = Append(st.current_section, line)]
    ELSE IF StartsSection(st.in_code_block, line)
    THEN LET section_text == SectionText(st.current_section)
         IN  [st EXCEPT
                 !.chunks = IF section_text # << >>
                            THEN _process_section(chunk_size, section_text,
                                                  st.current_header, st.chunks)
                            ELSE st.chunks,
                 !.current_header = strip(line),
                 !.current_section = <<line>>]
    ELSE [st EXCEPT !.current_section = Append(st.current_section, line)]

RECURSIVE ScanLines(_, _, _, _)
ScanLines(chunk_size, st, lines, k) ==
    IF k > Len(lines) THEN st
    ELSE ScanLines(chunk_size, ScanLine(chunk_size, st, lines[k]), lines, k + 1)

chunk_text(chunk_size, text) ==
    IF text = << >> THEN << >>
    ELSE LET st == ScanLines(chunk_size, ScanInit, split(text), 1)
             final_text == SectionText(st.current_section)
         IN  IF final_text # << >>
             THEN _process_section(chunk_size, final_text, st.current_header, st.chunks)
             ELSE st.chunks

(***************************************************************************)
(* extract_code_blocks, chunking.py:147-208                                *)
(***************************************************************************)

FenceLen == 3
ContextChars == 500
MaxLanguageLen == 20
DefaultMinLength == 50

\* start_offset, chunking.py:154-157
start_offset(markdown_content) ==
    IF startswith(strip(markdown_content), FENCE) THEN FenceLen ELSE 0

\* one pass of the `while True` loop, chunking.py:162-167, from `pos`:
\* the offset found, -1 when the loop breaks
NextBacktick(markdown_content, pos) == find(markdown_content, FENCE, pos)

RECURSIVE FindBackticks(_, _, _)
FindBackticks(markdown_content, pos, found) ==
    LET p == NextBacktick(markdown_content, pos)
    IN  IF p = -1 THEN found
        ELSE FindBackticks(markdown_content, p + FenceLen, Append(found, p))

\* backtick_positions after the loop of chunking.py:160-167
backtick_positions_of(markdown_content) ==
    FindBackticks(markdown_content, start_offset(markdown_content), << >>)

\* code_section.split('\n', 1), chunking.py:179
split1(code_section) ==
    LET nl == find(code_section, <<NL>>, 0)
    IN  IF nl = -1 THEN << code_section >>
        ELSE << Slice(code_section, 0, nl), SliceFrom(code_section, nl + 1) >>

\* HasLanguage without the limit on the length of the tag
HasLanguage_AnyLength(lines) ==
    /\ Len(lines) > 1
    /\ strip(lines[1]) # << >>
    /\ \A k \in 1..Len(strip(lines[1])) : strip(lines[1])[k] # SP

\* the language test of chunking.py:180
HasLanguage(lines) ==
    /\ Len(lines) > 1
    /\ strip(lines[1]) # << >>
    /\ \A k \in 1..Len(strip(lines[1])) : strip(lines[1])[k] # SP
    /\ Len(strip(lines[1])) < MaxLanguageLen

\* language and code_content of the block between two delimiter offsets,
\* chunking.py:176-185
BlockOf(markdown_content, start_pos, end_pos) ==
    LET code_section == Slice(markdown_content, start_pos + FenceLen, end_pos)
        lines == split1(code_section)
    IN  IF HasLanguage(lines)
        THEN [language |-> strip(lines[1]), code |-> strip(lines[2])]
        ELSE [language |-> << >>, code |-> strip(code_section)]

\* RecordOf with all the prose before and after the block as context
RecordOf_WholeProse(markdown_content, start_pos, end_pos) ==
    LET b == BlockOf(markdown_content, start_pos, end_pos)
    IN  [code |-> b.code,
         language |-> b.language,
         context_before |-> strip(Slice(markdown_content, 0, start_pos)),
         context_after |-> strip(SliceFrom(markdown_content, end_pos + FenceLen))]

\* the record appended at chunking.py:192-204
RecordOf(markdown_content, start_pos, end_pos) ==
    LET b == BlockOf(markdown_content, start_pos, end_pos)
        context_start == Max2(0, start_pos - ContextChars)
        context_end == Min2(Len(markdown_content), end_pos + FenceLen + ContextChars)
    IN  [code |-> b.code,
         language |-> b.language,
         context_before |-> strip(Slice(markdown_content, context_start, start_pos)),
         context_after |-> strip(Slice(markdown_content, end_pos + FenceLen, context_end))]

\* PairStep that also discards a body of exactly min_length
PairStep_DiscardEqual(markdown_content, min_length, positions, i, code_blocks) ==
    LET start_pos == positions[i + 1]
        end_pos == positions[i + 2]
    IN  IF Len(BlockOf(markdown_content, start_pos, end_pos).code) <= min_length
        THEN code_blocks
        ELSE Append(code_blocks, RecordOf(markdown_content, start_pos, end_pos))

\* one pass of the pairing loop for pair index i, chunking.py:171-206:
\* code_blocks afterwards
PairStep(markdown_content, min_length, positions, i, code_blocks) ==
    LET start_pos == positions[i + 1]
        end_pos == positions[i + 2]
    IN  IF Len(BlockOf(markdown_content, start_pos, end_pos).code) < min_length
        THEN code_blocks
        ELSE Append(code_blocks, RecordOf(markdown_content, start_pos, end_pos))

RECURSIVE PairLoop(_, _, _, _, _)
PairLoop(markdown_content, min_length, positions, i, code_blocks) ==
    IF ~(i < Len(positions) - 1) THEN code_blocks
    ELSE PairLoop(markdown_content, min_length, positions, i + 2,
                  PairStep(markdown_content, min_length, positions, i, code_blocks))

extract_code_blocks(markdown_content, min_length) ==
    PairLoop(markdown_content, min_length,
             backtick_positions_of(markdown_content), 0, << >>)

(***************************************************************************)
(* Inputs                                                                  *)
(***************************************************************************)
MaxPieces == 4
MaxChunkSize == 7
DefaultChunkSize == 1500
OversizedChunkSize == 500
TestChunkSize == 150

\* the building blocks of the generated documents
Pieces == { FENCE, <<HASH>>, <<HASH, SP>>, <<SP>>, <<NL>>, <<DOT>>, <<"a">>, <<"a", "a">> }

RECURSIVE TextsOf(_)
TextsOf(k) ==
    IF k = 0 THEN { << >> }
    ELSE LET shorter == TextsOf(k - 1)
         IN  shorter \cup { t \o q : t \in shorter, q \in Pieces }

GenTexts == TextsOf(MaxPieces)

Repeat(c, n) == [k \in 1..n |-> c]

\* the empty document
ScenarioA == << >>

\* "# Title\nShort body."
ScenarioB ==
    <<"#", " ", "T", "i", "t", "l", "e", "\n",
      "S", "h", "o", "r", "t", " ", "b", "o", "d", "y", ".">>

\* a 7-character header line and a body of 2000 characters in one run
ScenarioC ==
    <<"#", " ", "T", "i", "t", "l", "e", "\n">> \o Repeat("a", 4 * OversizedChunkSize)

\* a fence 40% into a 500-character window and a blank line at 60%; the
\* block closes beyond the window
ScenarioE ==
    Repeat("a", 200) \o FENCE \o <<"\n">> \o Repeat("b", 96) \o PARA
        \o Repeat("c", 200) \o <<"\n">> \o FENCE

\* the document of tests/test_chunker.py, lines 6-15: five copies of
\* TestChunkerUnit, chunked with chunk_size 150
TestChunkerUnit ==
    << "#", " ", "P", "y", "t", "h", "o", "n", " ", "S", "e", "t", "u", "p",
       "\n",
       "H", "e", "r", "e", " ", "i", "s", " ", "h", "o", "w", " ", "y", "o",
       "u", " ", "s", "t", "a", "r", "t", " ", "t", "h", "e", " ", "c", "r",
       "a", "w", "l", "e", "r", ".", "\n",
       BT, BT, BT, "p", "y", "t", "h", "o", "n", "\n",
       "#", " ", "T", "h", "i", "s", " ", "i", "s", " ", "a", " ", "c", "o",
       "m", "m", "e", "n", "t", " ", "i", "n", "s", "i", "d", "e", " ", "a",
       " ", "c", "o", "d", "e", " ", "b", "l", "o", "c", "k", "!", " ", "I",
       "t", " ", "s", "h", "o", "u", "l", "d", " ", "N", "O", "T", " ", "b",
       "e", " ", "s", "p", "l", "i", "t", "!", "\n",
       "f", "r", "o", "m", " ", "c", "r", "a", "w", "l", "4", "a", "i", " ",
       "i", "m", "p", "o", "r", "t", " ", "A", "s", "y", "n", "c", "W", "e",
       "b", "C", "r", "a", "w", "l", "e", "r", "\n",
       BT, BT, BT, "\n",
       "\n",
       "#", "#", " ", "O", "p", "t", "i", "o", "n", "s", "\n",
       "H", "e", "r", "e", " ", "a", "r", "e", " ", "s", "o", "m", "e", " ",
       "o", "p", "t", "i", "o", "n", "s", ".", "\n" >>

TestChunkerText ==
    TestChunkerUnit \o TestChunkerUnit \o TestChunkerUnit \o TestChunkerUnit
        \o TestChunkerUnit

\* line 9 of tests/test_chunker.py, a comment inside the fenced block
TestChunkerComment ==
    << "#", " ", "T", "h", "i", "s", " ", "i", "s", " ", "a", " ", "c", "o",
       "m", "m", "e", "n", "t", " ", "i", "n", "s", "i", "d", "e", " ", "a",
       " ", "c", "o", "d", "e", " ", "b", "l", "o", "c", "k", "!", " ", "I",
       "t", " ", "s", "h", "o", "u", "l", "d", " ", "N", "O", "T", " ", "b",
       "e", " ", "s", "p", "l", "i", "t", "!" >>

\* a document whose first 500-character window has the last match of `pat`
\* exactly at tenths/10 of the window and the last match of `next` at 60%
ThresholdDoc(pat, tenths, next) ==
    LET at  == (tenths * OversizedChunkSize) \div 10
        far == (6 * OversizedChunkSize) \div 10
    IN  Repeat("a", at) \o pat \o Repeat("b", far - at - Len(pat)) \o next
            \o Repeat("c", far)

\* one document per heuristic of the cascade, each followed by the
\* heuristic tried after it
ThresholdDocs ==
    { ThresholdDoc(FENCE, 3, PARA), ThresholdDoc(PARA, 3, SENT),
      ThresholdDoc(SENT, 3, <<NL>>), ThresholdDoc(<<NL>>, 3, <<SP>>),
      ThresholdDoc(<<SP>>, 1, << >>) }

\* lines at the edges of the header pattern, each followed by a body line
\* and a plain header: a tab after the '#', six and seven '#', a space
\* before the '#', no whitespace after the '#'
HeaderDocs ==
    LET rest == <<"\n", "b", "\n", "#", " ", "c">>
    IN  { <<"#", "\t", "T">> \o rest,
          Repeat("#", 6) \o <<" ", "a">> \o rest,
          Repeat("#", 7) \o <<" ", "a">> \o rest,
          <<"b", "\n", " ", "#", " ", "a">> \o rest,
          <<"b", "\n", "#", "a">> \o rest }

\* documents with whitespace other than space, tab and newline: form feeds
\* around the only word, a form feed after the '#', and a vertical tab
\* after the '#' with a body between a no-break space and an ideographic
\* space
WhitespaceDocs ==
    { <<"\f", "x", "\f">>,
      <<"b", "\n", "#", "\f", "T", "\n", "c">>,
      <<"#", VT, "T", "\n", NBSP, "b", "U+3000">> }

ScenarioTexts ==
    { ScenarioA, ScenarioB, ScenarioC, ScenarioE } \cup ThresholdDocs \cup HeaderDocs
        \cup WhitespaceDocs

ChunkSizes ==
    1..MaxChunkSize \cup { TestChunkSize, OversizedChunkSize, DefaultChunkSize }

\* the documents chunk_text is called with, per chunk_size
TextsFor(size) ==
    IF size <= MaxChunkSize THEN GenTexts
    ELSE IF size = TestChunkSize THEN { TestChunkerText }
    ELSE ScenarioTexts

MaxMdPieces == 6
MaxMinLength == 2

\* the building blocks of the generated Markdown documents
MdPieces == { FENCE, <<BT>>, <<SP>>, <<NL>>, <<"a">> }

RECURSIVE MdOf(_)
MdOf(k) ==
    IF k = 0 THEN { << >> }
    ELSE LET shorter == MdOf(k - 1)
         IN  shorter \cup { t \o q : t \in shorter, q \in MdPieces }

GenMarkdowns == MdOf(MaxMdPieces)

\* "```python\nprint(1)\n```"
ScenarioD ==
    FENCE \o <<"p", "y", "t", "h", "o", "n", "\n",
               "p", "r", "i", "n", "t", "(", "1", ")", "\n">> \o FENCE

\* prose, then a fenced block whose body has n characters, then prose
BlockDoc(n) ==
    <<"x", "\n">> \o FENCE \o <<"p", "y", "\n">> \o Repeat("c", n) \o <<"\n">>
        \o FENCE \o <<"\n", "y">>

\* a block of DefaultMinLength characters between two runs of prose longer
\* than ContextChars; the ContextChars characters next to the block begin
\* and end with whitespace
ContextDoc ==
    Repeat("p", 100) \o <<" ">> \o Repeat("q", ContextChars - 2) \o <<"\n">>
        \o FENCE \o <<"p", "y", "\n">> \o Repeat("c", DefaultMinLength) \o <<"\n">>
        \o FENCE
        \o <<"\n">> \o Repeat("r", ContextChars - 2) \o <<" ">> \o Repeat("s", 100)

\* prose, then a fenced block whose opening line is `first` and whose body
\* is "c"
LanguageDoc(first) ==
    <<"x", "\n">> \o FENCE \o first \o <<"\n", "c", "\n">> \o FENCE

\* opening lines at the edges of the language test: 19 and 20 characters,
\* a space inside, spaces around, a tab inside
LanguageDocs ==
    { LanguageDoc(Repeat("l", MaxLanguageLen - 1)),
      LanguageDoc(Repeat("l", MaxLanguageLen)),
      LanguageDoc(<<"a", " ", "b">>),
      LanguageDoc(<<" ", "p", "y", " ">>),
      LanguageDoc(<<"a", "\t", "b">>),
      LanguageDoc(<<"\f", "p", "y", NBSP>>) }

ScenarioMarkdowns ==
    { ScenarioD, BlockDoc(DefaultMinLength - 1), BlockDoc(DefaultMinLength),
      ContextDoc }

MinLengths == 0..MaxMinLength \cup { DefaultMinLength }

\* the documents extract_code_blocks is called with, per min_length
MarkdownsFor(m) ==
    IF m = DefaultMinLength THEN ScenarioMarkdowns
    ELSE IF m = 1 THEN GenMarkdowns \cup { ScenarioD } \cup LanguageDocs
    ELSE GenMarkdowns

(***************************************************************************)
(* State                                                                   *)
(***************************************************************************)
VARIABLES
    chunk_size,       \* self.chunk_size
    pc,               \* the program position
    text,             \* chunk_text's argument
    lines,            \* text.split('\n')
    li,               \* 1-based index of the line the for loop is at
    current_section,
    current_header,
    in_code_block,
    chunks,
    section_text,     \* _smart_split's text while the section is being split
    start,            \* _smart_split's cursor
    sub_chunks,       \* _smart_split's chunks
    markdown_content, \* extract_code_blocks' arguments
    min_length,
    pos,              \* the search cursor of chunking.py:161
    backtick_positions,
    pair_i,           \* `i` of the pairing loop, chunking.py:170
    code_blocks,
    calls             \* the calls of RagPipeline.chunk_text, per caller

vars == << chunk_size, pc, text, lines, li, current_section, current_header,
           in_code_block, chunks, section_text, start, sub_chunks,
           markdown_content, min_length, pos, backtick_positions, pair_i,
           code_blocks, calls >>

scan_vars == << current_section, current_header, in_code_block >>
split_vars == << section_text, start, sub_chunks >>
chunker_vars == << chunk_size, text, lines, li, scan_vars, chunks, split_vars >>
extract_vars == << markdown_content, min_length, pos, backtick_positions, pair_i,
                   code_blocks >>
pipeline_vars == << calls >>

\* nothing has been called yet
ExtractIdle ==
    /\ markdown_content = << >>
    /\ min_length = 0
    /\ pos = 0
    /\ backtick_positions = << >>
    /\ pair_i = 0
    /\ code_blocks = << >>

\* the callers that share one RagPipeline
Callers == { "A", "B" }

\* a caller's frame of RagPipeline.chunk_text and of the chunker methods it
\* runs; the field chunk_size is the argument, the variable chunk_size is
\* self.chunker.chunk_size
NoCall ==
    [pc |-> "idle", text |-> << >>, chunk_size |-> DefaultChunkSize,
     lines |-> << >>, li |-> 1, current_section |-> << >>,
     current_header |-> << >>, in_code_block |-> FALSE, chunks |-> << >>,
     section_text |-> << >>]

NoCalls == [c \in Callers |-> NoCall]

\* IntelligentChunker(chunk_size), chunking.py:11-12
Init ==
    /\ chunk_size \in ChunkSizes
    /\ pc = "call_chunk_text"
    /\ text = << >>
    /\ lines = << >>
    /\ li = 1
    /\ current_section = << >>
    /\ current_header = << >>
    /\ in_code_block = FALSE
    /\ chunks = << >>
    /\ section_text = << >>
    /\ start = 0
    /\ sub_chunks = << >>
    /\ ExtractIdle
    /\ calls = NoCalls

\* chunk_text(t) up to the for loop, chunking.py:15-23
ChunkText(t) ==
    /\ text' = t
    /\ IF t = << >>
       THEN /\ pc' = "done"
            /\ lines' = << >>
       ELSE /\ pc' = "scan"
            /\ lines' = split(t)
    /\ li' = 1
    /\ current_section' = << >>
    /\ current_header' = << >>
    /\ in_code_block' = FALSE
    /\ chunks' = << >>
    /\ UNCHANGED << chunk_size, split_vars, extract_vars, pipeline_vars >>

AtLine == pc = "scan" /\ li <= Len(lines)

\* a fence-toggle line, chunking.py:27-30
ScanFenceLine ==
    /\ AtLine
    /\ IsFenceLine(lines[li])
    /\ in_code_block' = ~in_code_block
    /\ current_section' = Append(current_section, lines[li])
    /\ li' = li + 1
    /\ UNCHANGED << chunk_size, pc, text, lines, current_header, chunks, split_vars,
                    extract_vars, pipeline_vars >>

\* ScanRegularLine with the fence state reset by every line that is not a
\* delimiter line
ScanRegularLine_ClosesFence ==
    /\ AtLine
    /\ ~IsFenceLine(lines[li])
    /\ ~StartsSection(in_code_block, lines[li])
    /\ current_section' = Append(current_section, lines[li])
    /\ li' = li + 1
    /\ in_code_block' = FALSE
    /\ UNCHANGED << chunk_size, pc, text, lines, current_header,
                    chunks, split_vars, extract_vars, pipeline_vars >>

\* any other line that does not start a section, chunking.py:46-48
ScanRegularLine ==
    /\ AtLine
    /\ ~IsFenceLine(lines[li])
    /\ ~StartsSection(in_code_block, lines[li])
    /\ current_section' = Append(current_section, lines[li])
    /\ li' = li + 1
    /\ UNCHANGED << chunk_size, pc, text, lines, current_header, in_code_block,
                    chunks, split_vars, extract_vars, pipeline_vars >>

\* Resume with the owning header left as it was when a section starts
Resume_KeepHeader ==
    IF li <= Len(lines)
    THEN /\ current_header' = current_header
         /\ current_section' = << lines[li] >>
         /\ li' = li + 1
         /\ pc' = "scan"
         /\ UNCHANGED in_code_block
    ELSE /\ pc' = "done"
         /\ UNCHANGED << li, scan_vars >>

\* what follows _process_section in chunk_text: after a header line the new
\* section starts, chunking.py:44-45; after the last line chunk_text
\* returns, chunking.py:55
Resume ==
    IF li <= Len(lines)
    THEN /\ current_header' = strip(lines[li])
         /\ current_section' = << lines[li] >>
         /\ li' = li + 1
         /\ pc' = "scan"
         /\ UNCHANGED in_code_block
    ELSE /\ pc' = "done"
         /\ UNCHANGED << li, scan_vars >>

\* HandOver without the test `if section_text:`
HandOver_EmitEmpty(section) ==
    IF ~Fits(section, chunk_size)
    THEN /\ pc' = "split"
         /\ section_text' = section
         /\ start' = 0
         /\ sub_chunks' = << >>
         /\ UNCHANGED << li, scan_vars, chunks >>
    ELSE /\ chunks' = Append(chunks, section)
         /\ Resume
         /\ UNCHANGED split_vars

\* `if section_text: self._process_section(...)`, chunking.py:40-41 and
\* :52-53, up to the call of _smart_split at chunking.py:73
HandOver(section) ==
    IF section # << >> /\ ~Fits(section, chunk_size)
    THEN /\ pc' = "split"
         /\ section_text' = section
         /\ start' = 0
         /\ sub_chunks' = << >>
         /\ UNCHANGED << li, scan_vars, chunks >>
    ELSE /\ chunks' = IF section # << >> THEN Append(chunks, section) ELSE chunks
         /\ Resume
         /\ UNCHANGED split_vars

\* a header line outside a code block, chunking.py:35-45
ScanHeaderLine ==
    /\ AtLine
    /\ ~IsFenceLine(lines[li])
    /\ StartsSection(in_code_block, lines[li])
    /\ HandOver(SectionText(current_section))
    /\ UNCHANGED << chunk_size, text, lines, extract_vars, pipeline_vars >>

\* the final trailing section, chunking.py:50-55
ScanEnd ==
    /\ pc = "scan"
    /\ li > Len(lines)
    /\ HandOver(SectionText(current_section))
    /\ UNCHANGED << chunk_size, text, lines, extract_vars, pipeline_vars >>

\* one iteration of _smart_split's loop that cuts and goes on,
\* chunking.py:98-143
SplitStep ==
    /\ pc = "split"
    /\ start < Len(section_text)
    /\ LET it == SplitIteration(section_text, start,
                                safe_chunk_size(chunk_size, current_header))
       IN  /\ ~it.last
           /\ sub_chunks' = AppendIf(sub_chunks, it.chunk)
           /\ start' = it.end
    /\ UNCHANGED << chunk_size, pc, text, lines, li, scan_vars, chunks, section_text,
                    extract_vars, pipeline_vars >>

\* the iteration that takes what is left and breaks, chunking.py:102-106,
\* then _process_section's loop, chunking.py:75-80, and chunk_text's
\* continuation
SplitReturn ==
    /\ pc = "split"
    /\ start < Len(section_text)
    /\ LET it == SplitIteration(section_text, start,
                                safe_chunk_size(chunk_size, current_header))
       IN  /\ it.last
           /\ sub_chunks' = AppendIf(sub_chunks, it.chunk)
           /\ start' = start
           /\ chunks' = chunks \o InjectAll(sub_chunks', current_header)
    /\ section_text' = section_text
    /\ Resume
    /\ UNCHANGED << chunk_size, text, lines, extract_vars, pipeline_vars >>

\* a call of chunk_text on the constructed chunker
ChunkTextCall == pc = "call_chunk_text" /\ \E t \in TextsFor(chunk_size) : ChunkText(t)

Next ==
    \/ ChunkTextCall
    \/ ScanFenceLine
    \/ ScanRegularLine
    \/ ScanHeaderLine
    \/ ScanEnd
    \/ SplitStep
    \/ SplitReturn

Spec == Init /\ [][Next]_vars

(***************************************************************************)
(* extract_code_blocks, step by step                                       *)
(***************************************************************************)

\* no chunker call is under way
InitExtract ==
    /\ chunk_size = DefaultChunkSize
    /\ pc = "call_extract_code_blocks"
    /\ text = << >>
    /\ lines = << >>
    /\ li = 1
    /\ current_section = << >>
    /\ current_header = << >>
    /\ in_code_block = FALSE
    /\ chunks = << >>
    /\ section_text = << >>
    /\ start = 0
    /\ sub_chunks = << >>
    /\ ExtractIdle
    /\ calls = NoCalls

\* extract_code_blocks(md, m) up to the search loop, chunking.py:153-161
Extract(md, m) ==
    /\ markdown_content' = md
    /\ min_length' = m
    /\ pos' = start_offset(md)
    /\ backtick_positions' = << >>
    /\ pair_i' = 0
    /\ code_blocks' = << >>
    /\ pc' = "find"
    /\ UNCHANGED << chunker_vars, pipeline_vars >>

ExtractCall ==
    pc = "call_extract_code_blocks" /\ \E m \in MinLengths : \E md \in MarkdownsFor(m) : Extract(md, m)

\* a pass of the search loop that finds a delimiter, chunking.py:163-167
FindNext ==
    /\ pc = "find"
    /\ NextBacktick(markdown_content, pos) # -1
    /\ backtick_positions' =
           Append(backtick_positions, NextBacktick(markdown_content, pos))
    /\ pos' = NextBacktick(markdown_content, pos) + FenceLen
    /\ UNCHANGED << pc, chunker_vars, pipeline_vars, markdown_content, min_length,
                    pair_i, code_blocks >>

\* the pass that finds none and breaks, chunking.py:163-165 and :170
FindBreak ==
    /\ pc = "find"
    /\ NextBacktick(markdown_content, pos) = -1
    /\ pos' = -1
    /\ pair_i' = 0
    /\ pc' = "pair"
    /\ UNCHANGED << chunker_vars, pipeline_vars, markdown_content, min_length,
                    backtick_positions,
                    code_blocks >>

\* Pair with a discarded block consuming its opening delimiter only
Pair_DiscardShifts ==
    /\ pc = "pair"
    /\ pair_i < Len(backtick_positions) - 1
    /\ code_blocks' = PairStep(markdown_content, min_length, backtick_positions,
                               pair_i, code_blocks)
    /\ pair_i' = IF code_blocks' = code_blocks THEN pair_i + 1 ELSE pair_i + 2
    /\ UNCHANGED << pc, chunker_vars, pipeline_vars, markdown_content, min_length, pos,
                    backtick_positions >>

\* a pass of the pairing loop, chunking.py:171-206
Pair ==
    /\ pc = "pair"
    /\ pair_i < Len(backtick_positions) - 1
    /\ code_blocks' = PairStep(markdown_content, min_length, backtick_positions,
                               pair_i, code_blocks)
    /\ pair_i' = pair_i + 2
    /\ UNCHANGED << pc, chunker_vars, pipeline_vars, markdown_content, min_length, pos,
                    backtick_positions >>

\* the loop test fails and code_blocks is returned, chunking.py:171 and :208
ExtractReturn ==
    /\ pc = "pair"
    /\ ~(pair_i < Len(backtick_positions) - 1)
    /\ pc' = "returned"
    /\ UNCHANGED << chunker_vars, extract_vars, pipeline_vars >>

NextExtract ==
    \/ ExtractCall
    \/ FindNext
    \/ FindBreak
    \/ Pair
    \/ ExtractReturn

SpecExtract == InitExtract /\ [][NextExtract]_vars

\* the run agrees with the function it steps through
ReturnedIsExtract ==
    pc = "returned" => code_blocks = extract_code_blocks(markdown_content, min_length)

\* the run agrees with the function it steps through
DoneIsChunkText == pc = "done" => chunks = chunk_text(chunk_size, text)

\* the `while start < text_length` test never fails: the loop ends by break
LoopEndsByBreak == pc = "split" => start < Len(section_text)

(***************************************************************************)
(* Both functions: the program is about to call one or the other.         *)
(***************************************************************************)
InitAll == Init \/ InitExtract

NextAll == Next \/ NextExtract

SpecAll == InitAll /\ [][NextAll]_vars

(***************************************************************************)
(* RagPipeline.chunk_text, rag_pipeline.py:21-28, on one pipeline whose    *)
(* chunker is shared by the callers.  A caller takes a step at each read   *)
(* or write of self.chunker.chunk_size and at each line of the scan.       *)
(***************************************************************************)

\* the documents and sizes the pipeline is called with
PipelineTexts ==
    { << >>,
      ScenarioB,
      <<"#", " ", "a", "\n", "b", "b", " ", "b", "b", " ", "b", "b">>,
      <<"a", "a", " ", "a", "a", "\n", "#", " ", "c", "\n", "d", "d", ".", " ", "d">> }

PipelineSizes == { MaxChunkSize - 2, MaxChunkSize, DefaultChunkSize }

\* RagPipeline.__init__: self.chunker = IntelligentChunker(chunk_size=1500)
InitPipeline ==
    /\ chunk_size = DefaultChunkSize
    /\ pc = "pipeline"
    /\ text = << >>
    /\ lines = << >>
    /\ li = 1
    /\ current_section = << >>
    /\ current_header = << >>
    /\ in_code_block = FALSE
    /\ chunks = << >>
    /\ section_text = << >>
    /\ start = 0
    /\ sub_chunks = << >>
    /\ ExtractIdle
    /\ calls = NoCalls

\* the comparison that never looks at the shared chunker
NeedsSet_AgainstDefault(arg, current) == arg # DefaultChunkSize

\* chunk_size != getattr(self.chunker, 'chunk_size', 1500)
NeedsSet(arg, current) == arg # current

\* a caller is between its call and its return
InCall(c) == calls[c].pc \notin { "idle", "returned" }

\* pipeline.chunk_text(t, n); n = 1500 is also the call that omits it
PipelineCall(c, t, n) ==
    /\ ~InCall(c)
    /\ calls' = [calls EXCEPT ![c] =
                     [NoCall EXCEPT !.pc = "check", !.text = t, !.chunk_size = n]]
    /\ UNCHANGED << pc, chunker_vars, extract_vars >>

\* the test of rag_pipeline.py:26
PipelineCheck(c) ==
    /\ calls[c].pc = "check"
    /\ calls' = [calls EXCEPT ![c].pc =
                     IF NeedsSet(calls[c].chunk_size, chunk_size)
                     THEN "set" ELSE "enter"]
    /\ UNCHANGED << pc, chunker_vars, extract_vars >>

\* self.chunker.chunk_size = chunk_size, rag_pipeline.py:27
PipelineSet(c) ==
    /\ calls[c].pc = "set"
    /\ chunk_size' = calls[c].chunk_size
    /\ calls' = [calls EXCEPT ![c].pc = "enter"]
    /\ UNCHANGED << pc, text, lines, li, scan_vars, chunks, split_vars,
                    extract_vars >>

\* self.chunker.chunk_text(text) up to the for loop, rag_pipeline.py:28 and
\* chunking.py:15-23
ChunkerEnter(c) ==
    /\ calls[c].pc = "enter"
    /\ calls' = [calls EXCEPT ![c] =
                     IF calls[c].text = << >>
                     THEN [@ EXCEPT !.pc = "returned"]
                     ELSE [@ EXCEPT !.pc = "scan", !.lines = split(calls[c].text)]]
    /\ UNCHANGED << pc, chunker_vars, extract_vars >>

\* the frame after _process_section has returned, chunking.py:44-45 and :55
ResumeCall(f) ==
    IF f.li <= Len(f.lines)
    THEN [f EXCEPT !.pc = "scan",
                   !.current_header = strip(f.lines[f.li]),
                   !.current_section = << f.lines[f.li] >>,
                   !.li = f.li + 1]
    ELSE [f EXCEPT !.pc = "returned"]

\* `if section_text: self._process_section(...)` up to the read of
\* self.chunk_size at chunking.py:62
HandOverCall(f) ==
    LET section == SectionText(f.current_section)
    IN  IF section # << >>
        THEN [f EXCEPT !.pc = "fits", !.section_text = section]
        ELSE ResumeCall(f)

\* one line of the for loop, chunking.py:25-48
ScanLineCall(f) ==
    LET line == f.lines[f.li]
    IN  IF IsFenceLine(line)
        THEN [f EXCEPT !.in_code_block = ~f.in_code_block,
                       !.current_section = Append(f.current_section, line),
                       !.li = f.li + 1]
        ELSE IF StartsSection(f.in_code_block, line)
        THEN HandOverCall(f)
        ELSE [f EXCEPT !.current_section = Append(f.current_section, line),
                       !.li = f.li + 1]

CallScanLine(c) ==
    /\ calls[c].pc = "scan"
    /\ calls[c].li <= Len(calls[c].lines)
    /\ calls' = [calls EXCEPT ![c] = ScanLineCall(calls[c])]
    /\ UNCHANGED << pc, chunker_vars, extract_vars >>

\* the final trailing section, chunking.py:50-55
CallScanEnd(c) ==
    /\ calls[c].pc = "scan"
    /\ calls[c].li > Len(calls[c].lines)
    /\ calls' = [calls EXCEPT ![c] = HandOverCall(calls[c])]
    /\ UNCHANGED << pc, chunker_vars, extract_vars >>

\* the frame after _smart_split has run with the budget `safe` and its
\* pieces have been appended, chunking.py:97-145 and :75-80
SplitCall(f, safe) ==
    ResumeCall([f EXCEPT !.chunks =
        f.chunks \o InjectAll(SmartSplitLoop(f.section_text, 0, safe, << >>),
                              f.current_header)])

\* the read of self.chunk_size at chunking.py:62 and the fast path
CallFits(c) ==
    /\ calls[c].pc = "fits"
    /\ calls' = [calls EXCEPT ![c] =
                     IF Fits(calls[c].section_text, chunk_size)
                     THEN ResumeCall([@ EXCEPT !.chunks =
                                          Append(@, calls[c].section_text)])
                     ELSE [@ EXCEPT !.pc = "budget"]]
    /\ UNCHANGED << pc, chunker_vars, extract_vars >>

\* the read of self.chunk_size at chunking.py:93; with a positive budget the
\* split runs on the caller's own values
CallBudget(c) ==
    /\ calls[c].pc = "budget"
    /\ LET safe == chunk_size - Len(header_prefix(calls[c].current_header))
       IN  calls' = [calls EXCEPT ![c] =
                         IF safe <= 0
                         THEN [@ EXCEPT !.pc = "fallback"]
                         ELSE SplitCall(@, safe)]
    /\ UNCHANGED << pc, chunker_vars, extract_vars >>

\* the second read of self.chunk_size, chunking.py:95
CallFallback(c) ==
    /\ calls[c].pc = "fallback"
    /\ calls' = [calls EXCEPT ![c] = SplitCall(@, chunk_size)]
    /\ UNCHANGED << pc, chunker_vars, extract_vars >>

\* a step of a call under way
CallStep(c) ==
    \/ PipelineCheck(c)
    \/ PipelineSet(c)
    \/ ChunkerEnter(c)
    \/ CallScanLine(c)
    \/ CallScanEnd(c)
    \/ CallFits(c)
    \/ CallBudget(c)
    \/ CallFallback(c)

\* calls may overlap
NextPipeline ==
    \E c \in Callers :
        \/ \E t \in PipelineTexts, n \in PipelineSizes : PipelineCall(c, t, n)
        \/ CallStep(c)

SpecPipeline == InitPipeline /\ [][NextPipeline]_vars

\* a call starts only when no other call is under way
NextSequential ==
    \E c \in Callers :
        \/ /\ \A other \in Callers : ~InCall(other)
           /\ \E t \in PipelineTexts, n \in PipelineSizes : PipelineCall(c, t, n)
        \/ CallStep(c)

SpecSequential == InitPipeline /\ [][NextSequential]_vars

(***************************************************************************)
(* Properties                                                              *)
(***************************************************************************)

\* str.count('```'): the non-overlapping occurrences of the delimiter
CountFences(s) == Len(FindBackticks(s, 0, << >>))

Even(n) == n % 2 = 0

\* C1: fence integrity.  When every fence of the input is terminated (an
\* even number of delimiters), no chunk chunk_text returns holds an odd
\* number of delimiters.
C1_FenceIntegrity ==
    (pc = "done" /\ Even(CountFences(text)))
        => \A k \in 1..Len(chunks) : Even(CountFences(chunks[k]))

\* C2: extract_code_blocks records every occurrence of the delimiter, one
\* at the very start of the document included, and pairs them (p0,p1),
\* (p2,p3), ...; Scenario D yields the one record python / print(1).
C2_EveryDelimiterPaired ==
    /\ pc \in {"pair", "returned"}
           => backtick_positions = FindBackticks(markdown_content, 0, << >>)
    /\ (pc = "returned" /\ markdown_content = ScenarioD /\ min_length = 1)
           => code_blocks =
                 << [code |-> <<"p", "r", "i", "n", "t", "(", "1", ")">>,
                     language |-> <<"p", "y", "t", "h", "o", "n">>,
                     context_before |-> << >>,
                     context_after |-> << >>] >>

\* the body budget and the provisional window of the split under way
Budget == safe_chunk_size(chunk_size, current_header)
Window == Slice(section_text, start, start + Budget)

\* a split has returned its last piece in this step
SplitReturns == pc = "split" /\ pc' # "split"

\* the chunks this step appended to the output
Emitted == SubSeq(chunks', Len(chunks) + 1, Len(chunks'))

\* C3: header propagation.  When a section with non-empty header H is split
\* into n > 1 chunks, every emitted chunk of index 1..n-1 starts with H.
C3_HeaderPropagation ==
    [][ (SplitReturns /\ current_header # << >> /\ Len(Emitted) > 1)
            => \A k \in 2..Len(Emitted) : startswith(Emitted[k], current_header)
      ]_vars

\* a whole document that is one header section was split and a
\* continuation piece got the header injected
C3_Witness ==
    /\ pc = "done"
    /\ current_header # << >>
    /\ section_text = strip(text)
    /\ Len(chunks) > 1
    /\ \E k \in 2..Len(chunks) :
           /\ ~startswith(sub_chunks[k], current_header)
           /\ chunks[k] = current_header \o <<NL>> \o sub_chunks[k]

\* the characters of s that are not whitespace, in order
NonWs(s) == SelectSeq(s, LAMBDA c : c \notin Whitespace)

\* the non-whitespace characters of the lines from index k on
RestOfLines(k) == NonWs(join(SubSeq(lines, k, Len(lines))))

\* the non-whitespace characters of the input that no piece holds yet
Pending ==
    IF pc = "scan" THEN NonWs(join(current_section)) \o RestOfLines(li)
    ELSE IF pc = "split" THEN NonWs(SliceFrom(section_text, start)) \o RestOfLines(li)
    ELSE << >>

\* the piece this step cut off, before any header is injected
Piece ==
    IF pc = "split"
    THEN IF Len(sub_chunks') > Len(sub_chunks) THEN sub_chunks'[Len(sub_chunks')] ELSE << >>
    ELSE IF Len(chunks') > Len(chunks) THEN chunks'[Len(chunks')] ELSE << >>

\* the output grows only by pieces, each as cut or behind the injected
\* header prefix
OutputOfPieces ==
    /\ pc = "scan" => chunks' \in { chunks, Append(chunks, Piece) }
    /\ pc = "split" => sub_chunks' \in { sub_chunks, Append(sub_chunks, Piece) }
    /\ (pc = "split" /\ pc' = "split") => chunks' = chunks
    /\ SplitReturns =>
           /\ SubSeq(chunks', 1, Len(chunks)) = chunks
           /\ Len(Emitted) = Len(sub_chunks')
           /\ \A k \in 1..Len(Emitted) :
                  \/ Emitted[k] = sub_chunks'[k]
                  \/ k > 1 /\ Emitted[k] = current_header \o <<NL>> \o sub_chunks'[k]

\* C4: no content loss.  Step by step, the non-whitespace characters of
\* the input are exactly those of the pieces cut so far followed by those
\* still pending, in order; the chunks returned are these pieces, each as
\* cut or behind an injected header prefix.  So the chunks, less the
\* injected prefixes, hold the input's non-whitespace characters in order.
C4_NoContentLoss ==
    [][ /\ pc = "call_chunk_text" => Pending' = NonWs(text')
        /\ pc # "call_chunk_text" => Pending = NonWs(Piece) \o Pending'
        /\ OutputOfPieces
      ]_vars

\* a document was split, whitespace was dropped at a cut and a header was
\* injected
C4_Witness ==
    /\ pc = "done"
    /\ Len(sub_chunks) > 2
    /\ \E k \in 2..Len(chunks) : chunks[k] # sub_chunks[k]
    /\ \E k \in 1..Len(text) : text[k] \in Whitespace
    /\ \E k \in 1..Len(sub_chunks) : sub_chunks[k] # NonWs(sub_chunks[k])

\* this step hands a non-empty section to _process_section
HandsOver ==
    /\ pc = "scan"
    /\ \/ li > Len(lines)
       \/ li <= Len(lines) /\ ~IsFenceLine(lines[li])
             /\ ~in_code_block /\ header_match(lines[li])
    /\ SectionText(current_section) # << >>

\* C5: fast path.  A section whose trimmed text has len <= chunk_size
\* (equality included) is appended as exactly one chunk equal to it, with
\* no cut and no header injection.
C5_FastPath ==
    [][ (HandsOver /\ Len(SectionText(current_section)) <= chunk_size)
            => /\ chunks' = Append(chunks, SectionText(current_section))
               /\ pc' # "split"
      ]_vars

\* Scenario B: chunk_text("# Title\nShort body.") with chunk_size 1500
\* has returned the text as its one chunk
C5_Witness ==
    /\ pc = "done"
    /\ chunk_size = DefaultChunkSize
    /\ text = ScenarioB
    /\ chunks = << ScenarioB >>

\* C6: code filtering.  Every record has len(code) >= min_length; a paired
\* block whose trimmed body is shorter than min_length adds no record and
\* one of at least min_length adds one; with the default 50, a body of 49
\* yields nothing and a body of 50 yields the record.
C6_CodeFiltering ==
    [][ /\ \A k \in 1..Len(code_blocks') : Len(code_blocks'[k].code) >= min_length'
        /\ (pc = "pair" /\ pair_i < Len(backtick_positions) - 1) =>
              LET b == BlockOf(markdown_content, backtick_positions[pair_i + 1],
                               backtick_positions[pair_i + 2])
              IN  /\ Len(b.code) < min_length => code_blocks' = code_blocks
                  /\ Len(b.code) >= min_length =>
                         /\ Len(code_blocks') = Len(code_blocks) + 1
                         /\ code_blocks'[Len(code_blocks')].code = b.code
        /\ (pc' = "returned" /\ min_length = DefaultMinLength
               /\ markdown_content = BlockDoc(DefaultMinLength - 1))
              => code_blocks' = << >>
        /\ (pc' = "returned" /\ min_length = DefaultMinLength
               /\ markdown_content = BlockDoc(DefaultMinLength))
              => /\ Len(code_blocks') = 1
                 /\ code_blocks'[1].code = Repeat("c", DefaultMinLength)
      ]_vars

\* a block whose body has exactly min_length = 50 characters was retained
C6_Witness ==
    /\ pc = "returned"
    /\ min_length = DefaultMinLength
    /\ markdown_content = BlockDoc(DefaultMinLength)
    /\ Len(code_blocks) = 1
    /\ Len(code_blocks[1].code) = min_length

\* the header line of Scenario C
ScenarioCHeader == <<"#", " ", "T", "i", "t", "l", "e">>

ScenarioCDone == pc = "done" /\ text = ScenarioC /\ chunk_size = OversizedChunkSize

\* C7 as stated: Scenario C returns exactly 4 chunks and chunks 2 to 4
\* begin with the header text.
C7_FourChunks ==
    ScenarioCDone =>
        /\ Len(chunks) = 4
        /\ \A k \in 2..4 : startswith(chunks[k], ScenarioCHeader)

\* C7 amended: Scenario C returns exactly 5 chunks (the section is the
\* header line, a newline and the 2000-character body, 2008 characters cut
\* every 492) and chunks 2 to 5 begin with the header text.
C7_FiveChunks ==
    ScenarioCDone =>
        /\ Len(chunks) = 5
        /\ \A k \in 2..5 : startswith(chunks[k], ScenarioCHeader)

\* Scenario C has run to its end
C7_Witness == ScenarioCDone /\ Len(section_text) = Len(ScenarioCHeader) + 1 + 2000

\* C8: a header-like line met while the fence state is true never starts
\* a section: it is appended to the current section, the owning header is
\* unchanged and nothing is emitted.
C8_NoSectionInsideFence ==
    [][ (pc = "scan" /\ li <= Len(lines) /\ in_code_block /\ header_match(lines[li]))
            => /\ current_section' = Append(current_section, lines[li])
               /\ current_header' = current_header
               /\ chunks' = chunks
               /\ in_code_block'
               /\ pc' = "scan"
      ]_vars

\* in the document of tests/test_chunker.py the comment line of the fenced
\* block has just been scanned: it is header-like, the fence state is true
\* and it went into the section of "# Python Setup"
C8_Witness ==
    /\ pc = "scan"
    /\ text = TestChunkerText
    /\ li > 1
    /\ lines[li - 1] = TestChunkerComment
    /\ header_match(lines[li - 1])
    /\ in_code_block
    /\ current_section[Len(current_section)] = TestChunkerComment
    /\ current_header = SubSeq(TestChunkerUnit, 1, 14)
    /\ startswith(current_section[1], current_header)

\* C9: fence priority.  In an iteration that cuts, when the last delimiter
\* of the window lies at an offset strictly above 0.3 x budget the cut is
\* at that delimiter, whatever break occurs further right.
C9_FencePriority ==
    [][ (pc = "split" /\ start + Budget < Len(section_text)
           /\ rfind(Window, FENCE) # -1
           /\ 10 * rfind(Window, FENCE) > 3 * Budget)
            => start' = start + rfind(Window, FENCE)
      ]_vars

\* Scenario E: the first cut was put at the fence at offset 200 of the
\* 500-character window although a blank line stands at offset 300
C9_Witness ==
    /\ pc = "split"
    /\ text = ScenarioE
    /\ chunk_size = OversizedChunkSize
    /\ start = 200
    /\ rfind(Slice(section_text, 0, chunk_size), FENCE) = 200
    /\ rfind(Slice(section_text, 0, chunk_size), PARA) = 300

\* a call is under way
Running == pc \in {"scan", "split", "find", "pair"}

\* a bound on the steps the call under way can still take
Rank ==
    IF pc = "scan"
        THEN (Len(lines) + 2 - li) * (Len(text) + 2) + Len(text) + 1
    ELSE IF pc = "split"
        THEN (Len(lines) + 2 - li) * (Len(text) + 2) + Len(section_text) - start
    ELSE IF pc = "find"
        THEN Len(markdown_content) + 3 + Len(markdown_content) - pos
    ELSE IF pc = "pair"
        THEN Len(backtick_positions) + 1 - pair_i
    ELSE 0

\* the iteration _smart_split is about to run takes the rest or moves
\* `start` forward, by at most the budget
Advances ==
    pc = "split" =>
        /\ start < Len(section_text)
        /\ LET it == SplitIteration(section_text, start, Budget)
           IN  it.last \/ (it.end >= start + 1 /\ it.end <= start + Budget)

\* C10: totality and termination.  Every _smart_split iteration either
\* takes all the remaining text or advances `start` by at least 1 and at
\* most the budget, and every step of a call of chunk_text or of
\* extract_code_blocks lowers a natural-number bound on the steps left, so
\* every call returns.
C10_Termination ==
    /\ []Advances
    /\ [][ /\ Running => (Rank' < Rank /\ Rank' >= 0)
           /\ (pc = "split" /\ pc' = "split")
                 => (start' >= start + 1 /\ start' <= start + Budget)
         ]_vars

\* a call on a single token longer than the budget, holding an unmatched
\* fence, has returned
C10_Witness ==
    /\ pc = "done"
    /\ Len(text) > chunk_size
    /\ text = NonWs(text)
    /\ ~Even(CountFences(text))
    /\ Len(sub_chunks) > 1

\* what a fresh IntelligentChunker(chunk_size).chunk_text(text) returns for
\* the arguments of caller c
Alone(c) == chunk_text(calls[c].chunk_size, calls[c].text)

Returned(c) == calls[c].pc = "returned"

\* C11: concurrent calls of RagPipeline.chunk_text on one pipeline, with
\* any chunk_size arguments and in any interleaving, each return what the
\* call returns when it runs alone with its own chunk_size.
C11_ConcurrentIndependence ==
    \A c \in Callers : Returned(c) => calls[c].chunks = Alone(c)

\* caller c has passed rag_pipeline.py:26-27 and is inside the chunker
InChunker(c) == calls[c].pc \in { "enter", "scan", "fits", "budget", "fallback" }

\* C12: no state across invocations.  When calls do not overlap, whatever
\* calls came before, the chunker a call runs on holds the call's own
\* chunk_size, and the call returns what a fresh
\* IntelligentChunker(chunk_size).chunk_text(text) returns.
C12_NoStateAcrossCalls ==
    \A c \in Callers :
        /\ InChunker(c) => chunk_size = calls[c].chunk_size
        /\ Returned(c) => calls[c].chunks = Alone(c)

\* a call with one small chunk_size has returned, and after it a call with
\* another chunk_size that had to split its document
C12_Witness ==
    /\ Returned("A") /\ Returned("B")
    /\ calls["A"].chunk_size = MaxChunkSize - 2
    /\ calls["B"].chunk_size = MaxChunkSize
    /\ chunk_size = MaxChunkSize
    /\ Len(calls["B"].chunks) > 1

\* the scan is where a section ends: at a header line outside a code block
\* or past the last line
SectionEnds ==
    /\ pc = "scan"
    /\ \/ li > Len(lines)
       \/ li <= Len(lines) /\ ~IsFenceLine(lines[li])
             /\ StartsSection(in_code_block, lines[li])

\* C13: empty input.  chunk_text("") returns the empty sequence for every
\* chunk_size, and a section whose trimmed text is empty is never emitted:
\* where such a section ends nothing is appended and nothing is split.
C13_EmptyInput ==
    /\ [](pc = "done" /\ text = << >> => chunks = << >>)
    /\ [][ (SectionEnds /\ SectionText(current_section) = << >>)
              => (chunks' = chunks /\ pc' # "split")
         ]_vars

\* Scenario A: chunk_text("") with chunk_size 1500 has returned
C13_Witness ==
    /\ pc = "done"
    /\ chunk_size = DefaultChunkSize
    /\ text = ScenarioA
    /\ lines = << >>
    /\ chunks = << >>

\* the fence state the scan is in when it reaches line k
InFenceBefore(ls, k) ==
    Cardinality({ j \in 1..(k - 1) : IsFenceLine(ls[j]) }) % 2 = 1

\* the document has a header line: a line that matches the header pattern
\* outside a fenced block
HasHeaderLine(t) ==
    LET ls == split(t)
    IN  \E k \in 1..Len(ls) :
            ~IsFenceLine(ls[k]) /\ StartsSection(InFenceBefore(ls, k), ls[k])

\* what chunk_text returns when the whole trimmed text is one section with
\* empty header, handed to _process_section once
OneSection == _process_section(chunk_size, strip(text), << >>, << >>)

\* C14 as stated: every non-empty document without a header line is
\* processed as a single section with empty header, by one call of
\* _process_section on the whole trimmed text.
C14_OneSectionIfNonEmpty ==
    (text # << >> /\ ~HasHeaderLine(text)) =>
        /\ current_header = << >>
        /\ pc = "done" => chunks = OneSection

\* C14 amended: every document without a header line that holds a
\* character other than whitespace is processed as a single section with
\* empty header, by one call of _process_section on the whole trimmed
\* text, and no returned chunk carries an injected prefix: the chunks are
\* the trimmed text itself or the pieces _smart_split cut.  A document of
\* whitespace only yields no section and no chunk.
C14_OneSectionIfNotBlank ==
    /\ (strip(text) # << >> /\ ~HasHeaderLine(text)) =>
           /\ current_header = << >>
           /\ pc = "done" =>
                  /\ chunks = OneSection
                  /\ chunks = IF Fits(strip(text), chunk_size)
                              THEN << strip(text) >> ELSE sub_chunks
    /\ (pc = "done" /\ strip(text) = << >>) => chunks = << >>

\* a document with no header line, but a header-like line inside a fenced
\* block and whitespace to trim, was split as one section with no header
C14_Witness ==
    /\ pc = "done"
    /\ ~HasHeaderLine(text)
    /\ \E k \in 1..Len(lines) : header_match(lines[k])
    /\ strip(text) # text
    /\ current_header = << >>
    /\ section_text = strip(text)
    /\ Len(chunks) > 1
    /\ chunks = sub_chunks

\* the text the iteration _smart_split is about to run cuts off, untrimmed
CutText ==
    LET it == SplitIteration(section_text, start, Budget)
    IN  Slice(section_text, start, it.end)

\* C15: every chunk chunk_text returns, and every chunk and piece it holds
\* on the way, is non-empty after trimming, for every chunk_size >= 1; an
\* iteration whose cut text is only whitespace appends nothing.
C15_NonEmptyAfterTrim ==
    /\ [](/\ \A k \in 1..Len(chunks) : strip(chunks[k]) # << >>
          /\ \A k \in 1..Len(sub_chunks) : strip(sub_chunks[k]) # << >>)
    /\ [][ (pc = "split" /\ strip(CutText) = << >>) => sub_chunks' = sub_chunks
         ]_vars

\* a section without header was cut one character at a time, and a window
\* of whitespace gave no chunk: fewer chunks than windows
C15_Witness ==
    /\ pc = "done"
    /\ chunk_size = 1
    /\ current_header = << >>
    /\ Len(section_text) > 2
    /\ chunks = sub_chunks
    /\ Len(chunks) > 1
    /\ Len(chunks) < Len(section_text)

\* C16: chunk size bound.  For chunk_size >= 1, a chunk emitted for a
\* section with no header, or with len(header) + 1 < chunk_size, has
\* length <= chunk_size; otherwise (the header-subtracted budget is <= 0)
\* it has length <= chunk_size + len(header) + 1.
C16_SizeBound ==
    [][ \A k \in 1..Len(Emitted) :
            IF current_header = << >> \/ Len(current_header) + 1 < chunk_size
            THEN Len(Emitted[k]) <= chunk_size
            ELSE Len(Emitted[k]) <= chunk_size + Len(current_header) + 1
      ]_vars

\* a section whose header leaves a positive budget was split, and a
\* continuation chunk with the injected header is exactly chunk_size long
C16_Witness ==
    /\ pc = "done"
    /\ current_header # << >>
    /\ Len(current_header) + 1 < chunk_size
    /\ Len(chunks) = Len(sub_chunks)
    /\ \E k \in 2..Len(chunks) :
           /\ chunks[k] = current_header \o <<NL>> \o sub_chunks[k]
           /\ Len(chunks[k]) = chunk_size

\* the characters of s at the 0-based offsets a .. b - 1, cut at the
\* boundaries of s
Chars(s, a, b) == SubSeq(s, Max2(a, 0) + 1, Min2(b, Len(s)))

\* C17: context capture.  Each pass of the pairing loop that appends a
\* record takes it from two recorded delimiters; its context_before is the
\* trim of the at most 500 characters that end right before the opening
\* delimiter and its context_after the trim of the at most 500 characters
\* that begin right after the closing delimiter, cut at the document
\* boundaries; both have length <= 500.
C17_ContextCapture ==
    [][ (pc = "pair" /\ Len(code_blocks') > Len(code_blocks)) =>
            LET opening == backtick_positions[pair_i + 1]
                closing == backtick_positions[pair_i + 2]
                record == code_blocks'[Len(code_blocks')]
            IN  /\ MatchAt(markdown_content, FENCE, opening)
                /\ MatchAt(markdown_content, FENCE, closing)
                /\ opening + 3 <= closing
                /\ record.context_before =
                       strip(Chars(markdown_content, opening - 500, opening))
                /\ record.context_after =
                       strip(Chars(markdown_content, closing + 3, closing + 3 + 500))
                /\ Len(record.context_before) <= 500
                /\ Len(record.context_after) <= 500
      ]_vars

\* the block of ContextDoc was recorded: of the 600 characters on either
\* side, the 500 next to the block were taken and trimmed to 498
C17_Witness ==
    /\ pc = "returned"
    /\ markdown_content = ContextDoc
    /\ Len(code_blocks) = 1
    /\ code_blocks[1].context_before = Repeat("q", 498)
    /\ code_blocks[1].context_after = Repeat("r", 498)

\* the heuristics of the cascade in priority order: what is searched for,
\* its threshold in tenths of the budget, and how far after the match the
\* cut is put
Cascade ==
    << [pat |-> FENCE,    tenths |-> 3, after |-> 0],
       [pat |-> PARA,     tenths |-> 3, after |-> 0],
       [pat |-> SENT,     tenths |-> 3, after |-> 1],
       [pat |-> <<NL>>,   tenths |-> 3, after |-> 0],
       [pat |-> <<SP>>,   tenths |-> 1, after |-> 0] >>

\* heuristic k has a match in the window and its last match lies strictly
\* above its threshold
Qualifies(k) ==
    LET idx == rfind(Window, Cascade[k].pat)
    IN  idx # -1 /\ 10 * idx > Cascade[k].tenths * Budget

\* C18: cascade order.  In an iteration whose remaining text exceeds the
\* budget the cut is set by the first heuristic, in the order fence, blank
\* line, ". ", newline, space, whose last match in the window lies
\* strictly above its threshold (0.3 x budget, 0.1 x budget for the
\* space), and when none qualifies the cut is at start + budget.
C18_CascadeOrder ==
    [][ (pc = "split" /\ Len(section_text) - start > Budget) =>
            LET qualified == { k \in 1..Len(Cascade) : Qualifies(k) }
            IN  IF qualified = {}
                THEN start' = start + Budget
                ELSE LET first == CHOOSE k \in qualified :
                                      \A other \in qualified : k <= other
                     IN  start' = start + rfind(Window, Cascade[first].pat)
                                        + Cascade[first].after
      ]_vars

\* the first window of "```aa aa" with chunk_size 7 has a fence at offset
\* 0, below the threshold, and a space at offset 5: the cut went to the
\* space
C18_Witness ==
    /\ pc = "split"
    /\ chunk_size = MaxChunkSize
    /\ current_header = << >>
    /\ Len(section_text) > chunk_size
    /\ rfind(Slice(section_text, 0, chunk_size), FENCE) = 0
    /\ rfind(Slice(section_text, 0, chunk_size), <<SP>>) = start
    /\ start > 0
    /\ Len(sub_chunks) = 1

\* the piece the iteration after this step cuts off
NextPiece == SplitIteration(section_text, start', Budget).chunk

\* this step is a cutting iteration that accepts the fence heuristic
FenceAccepted ==
    pc = "split" /\ Len(section_text) - start > Budget /\ Qualifies(1)

\* the cut is immediately before the delimiter: the piece cut off is the
\* text up to it, and the text left begins with it
CutBeforeDelimiter ==
    /\ start' = start + rfind(Window, FENCE)
    /\ MatchAt(section_text, FENCE, start')
    /\ Piece = strip(Slice(section_text, start, start'))

\* the delimiter at the cut opens a block (an even number of delimiters
\* precedes it in the section), and when the block is closed in the rest
\* of the section the next piece holds it up to its closing delimiter
BlockDeferredWhole ==
    /\ Even(CountFences(Slice(section_text, 0, start')))
    /\ CountFences(SliceFrom(section_text, start')) >= 2
           => CountFences(NextPiece) >= 2

\* C19: fence cut placement.  When the fence heuristic is accepted the cut
\* is immediately before the delimiter, the next piece begins with that
\* delimiter, and the fenced block that starts there goes whole into the
\* next chunk instead of being split across two.
C19_FenceCutPlacement ==
    [][ FenceAccepted =>
            /\ CutBeforeDelimiter
            /\ startswith(NextPiece, FENCE)
            /\ BlockDeferredWhole
      ]_vars

\* the placement alone: the cut is immediately before the last delimiter
\* of the window
FenceCutIsBeforeDelimiter == [][ FenceAccepted => CutBeforeDelimiter ]_vars

\* the header of the section leaves no room for a body
HeaderFillsChunk == current_header # << >> /\ chunk_size - Len(current_header) - 1 <= 0

\* the budget as the specification gives it
ExpectedBudget ==
    IF current_header = << >> \/ HeaderFillsChunk
    THEN chunk_size
    ELSE chunk_size - Len(current_header) - 1

\* C20: budget computation.  _smart_split works with the budget
\* chunk_size - len(header) - 1 when the section has a header, chunk_size
\* when it has none, and chunk_size again when the first value is <= 0:
\* an iteration takes the rest and returns exactly when what is left is
\* within that budget, and otherwise moves the cursor forward by at least
\* one character and at most the budget, so that the split completes.
C20_BudgetComputation ==
    [][ pc = "split" =>
            /\ ExpectedBudget >= 1
            /\ (pc' # "split") <=> (Len(section_text) - start <= ExpectedBudget)
            /\ pc' = "split" =>
                   /\ start' > start
                   /\ start' <= start + ExpectedBudget
                   /\ start' < Len(section_text)
            /\ pc' # "split" => Len(chunks') >= Len(chunks)
      ]_vars

\* a section whose header is as long as chunk_size was split with the
\* fall-back budget, in hard cuts of chunk_size characters, and the call
\* has returned
C20_Witness ==
    /\ pc = "done"
    /\ HeaderFillsChunk
    /\ Len(current_header) >= chunk_size
    /\ Len(section_text) > 2 * chunk_size
    /\ Len(sub_chunks) > 2
    /\ Len(sub_chunks[1]) = chunk_size
    /\ Len(chunks) >= Len(sub_chunks)

\* ------------------------------------------------------------------
\* The first piece of a split section
\* ------------------------------------------------------------------

\* C21: first sub-chunk carries the header.  When a section with non-empty
\* header H is split, the first emitted chunk begins with H, so that every
\* chunk emitted for the section starts with H.
C21_FirstChunkCarriesHeader ==
    [][ (SplitReturns /\ current_header # << >>)
            => \A k \in 1..Len(Emitted) : startswith(Emitted[k], current_header)
      ]_vars

\* the first piece is emitted as the split produced it: chunking.py:77 adds
\* nothing to the piece of index 0
FirstPieceAsIs ==
    [][ (SplitReturns /\ Len(Emitted) > 0) => Emitted[1] = sub_chunks'[1] ]_vars

\* ------------------------------------------------------------------
\* Matches exactly at the threshold
\* ------------------------------------------------------------------

\* the last match of heuristic k in the window lies exactly at its
\* threshold
AtThreshold(k) ==
    LET idx == rfind(Window, Cascade[k].pat)
    IN  idx # -1 /\ 10 * idx = Cascade[k].tenths * Budget

\* the cut the heuristics tried after k give: the first of them that
\* qualifies, the end of the window when none does
CutAfter(k) ==
    LET later == { j \in (k + 1)..Len(Cascade) : Qualifies(j) }
    IN  IF later = {} THEN Budget
        ELSE LET first == CHOOSE j \in later : \A other \in later : j <= other
             IN  rfind(Window, Cascade[first].pat) + Cascade[first].after

\* C22: strict thresholds.  For a budget that is a multiple of 10, a
\* heuristic that is reached by the cascade and whose last match lies
\* exactly at its threshold (0.3 x budget, 0.1 x budget for the space) is
\* rejected: the cut is the one the later heuristics give.
C22_StrictThresholds ==
    [][ (pc = "split" /\ Len(section_text) - start > Budget /\ Budget % 10 = 0) =>
            \A k \in 1..Len(Cascade) :
                (AtThreshold(k) /\ \A j \in 1..(k - 1) : ~Qualifies(j))
                    => start' = start + CutAfter(k)
      ]_vars

\* the delimiter of the first window lies exactly at 30% of the budget
\* and the cut went to the blank line at 60%
C22_Witness ==
    /\ pc = "split"
    /\ chunk_size = OversizedChunkSize
    /\ text = ThresholdDoc(FENCE, 3, PARA)
    /\ 10 * rfind(Slice(section_text, 0, chunk_size), FENCE) = 3 * chunk_size
    /\ start = rfind(Slice(section_text, 0, chunk_size), PARA)
    /\ Len(sub_chunks) = 1

\* ------------------------------------------------------------------
\* The sentence cut
\* ------------------------------------------------------------------

\* this step is a cutting iteration in which the sentence heuristic is the
\* accepted rule
SentenceAccepted ==
    /\ pc = "split"
    /\ Len(section_text) - start > Budget
    /\ ~Qualifies(1)
    /\ ~Qualifies(2)
    /\ Qualifies(3)

\* C23: sentence cut.  When ". " is the accepted rule the cut is one past
\* the match: the piece cut off ends with the period, the text left begins
\* with the space after it, and the next piece has that space trimmed away.
C23_SentenceCut ==
    [][ SentenceAccepted =>
            /\ start' = start + rfind(Window, SENT) + 1
            /\ Piece = strip(Slice(section_text, start, start'))
            /\ Piece # << >>
            /\ Piece[Len(Piece)] = DOT
            /\ section_text[start' + 1] = SP
            /\ NextPiece = strip(SliceFrom(Slice(section_text, 0, SplitIteration(section_text, start', Budget).end), start' + 1))
      ]_vars

\* the first window of a section without delimiter or blank line has its
\* last ". " above 30% of the budget; the first piece was cut one past it
\* and ends with the period
C23_Witness ==
    /\ pc = "split"
    /\ Len(sub_chunks) = 1
    /\ find(section_text, FENCE, 0) = -1
    /\ find(section_text, PARA, 0) = -1
    /\ start = rfind(Slice(section_text, 0, Budget), SENT) + 1
    /\ 10 * (start - 1) > 3 * Budget
    /\ sub_chunks[1] = strip(Slice(section_text, 0, start))
    /\ sub_chunks[1][Len(sub_chunks[1])] = DOT

\* ------------------------------------------------------------------
\* A fence that is never closed
\* ------------------------------------------------------------------

\* no line from the one under the cursor on is a delimiter line
NoFenceAhead == \A k \in li..Len(lines) : ~IsFenceLine(lines[k])

\* the fence state is true and stays so to the end of the input
Unterminated == pc = "scan" /\ in_code_block /\ NoFenceAhead

\* while the fence state is true the current section ends with every line
\* scanned since the delimiter line that opened the fence, that line
\* included
HoldsLinesSinceFence ==
    (pc = "scan" /\ in_code_block) =>
        \E f \in 1..(li - 1) :
            /\ IsFenceLine(lines[f])
            /\ \A k \in (f + 1)..(li - 1) : ~IsFenceLine(lines[k])
            /\ Len(current_section) >= li - f
            /\ SubSeq(current_section, Len(current_section) - (li - f) + 1,
                      Len(current_section)) = SubSeq(lines, f, li - 1)

\* C24: unterminated fence.  Once the fence state is true and no later
\* line is a delimiter line, every later line, header-like or not, is
\* appended to the current section, the owning header and the output stay
\* as they are and the fence state stays true; at the end of the input the
\* section, which holds every line since the opening delimiter, is handed
\* over under that header, and every step lowers the bound on the steps
\* left, so the call returns.
C24_UnterminatedFence ==
    /\ []HoldsLinesSinceFence
    /\ [][ /\ (Unterminated /\ li <= Len(lines)) =>
                /\ current_section' = Append(current_section, lines[li])
                /\ current_header' = current_header
                /\ chunks' = chunks
                /\ in_code_block'
                /\ Unterminated'
           /\ (Unterminated /\ li > Len(lines)) =>
                /\ current_header' = current_header
                /\ pc' \in {"split", "done"}
                /\ pc' = "split" => section_text' = SectionText(current_section)
                /\ pc' = "done" =>
                      chunks' = _process_section(chunk_size, SectionText(current_section),
                                                 current_header, chunks)
           /\ (in_code_block /\ NoFenceAhead /\ Running) => (Rank' < Rank /\ Rank' >= 0)
         ]_vars

\* a call has returned with the fence state true; a header-like line
\* follows the last delimiter line, started no section, and the one chunk
\* returned is the whole trimmed input
C24_Witness ==
    /\ pc = "done"
    /\ in_code_block
    /\ current_header = << >>
    /\ chunks = << strip(text) >>
    /\ \E f \in 1..Len(lines) :
          /\ IsFenceLine(lines[f])
          /\ \A k \in (f + 1)..Len(lines) : ~IsFenceLine(lines[k])
          /\ \E k \in (f + 1)..Len(lines) : header_match(lines[k])

\* ------------------------------------------------------------------
\* Which lines start a section
\* ------------------------------------------------------------------

\* the number of '#' characters the line begins with
LeadingHashes(line) ==
    IF \A k \in 1..Len(line) : line[k] = HASH THEN Len(line)
    ELSE (CHOOSE k \in 1..Len(line) :
              line[k] # HASH /\ \A j \in 1..(k - 1) : line[j] = HASH) - 1

\* the line begins at column 0 with one to six '#' and a character of the
\* set `after` follows them
HeaderShape(line, after) ==
    /\ LeadingHashes(line) \in 1..6
    /\ Len(line) > LeadingHashes(line)
    /\ line[LeadingHashes(line) + 1] \in after

\* this step takes the line under the cursor as the first line of a new
\* section, owned by the trimmed line
NewSection ==
    /\ current_header' = strip(lines[li])
    /\ current_section' = << lines[li] >>
    /\ ~(current_section' = Append(current_section, lines[li])
            /\ current_header' = current_header)

\* the step moves the cursor past the line under it
ConsumesLine == pc \in {"scan", "split"} /\ li <= Len(lines) /\ li' = li + 1

\* C25 as stated: a line starts a new section if and only if the fence
\* state is false, the line is not a delimiter line, and it begins at
\* column 0 with one to six '#' followed by at least one space.
C25_HeaderNeedsSpace ==
    [][ ConsumesLine =>
            (NewSection <=> (/\ ~in_code_block
                             /\ ~IsFenceLine(lines[li])
                             /\ HeaderShape(lines[li], {SP})))
      ]_vars

\* C25, amended: a line starts a new section if and only if the fence
\* state is false, the line is not a delimiter line, and it begins at
\* column 0 with one to six '#' followed by at least one whitespace
\* character (a space, a tab, ...); seven or more '#', no whitespace after
\* the '#', or whitespace before the first '#' start no section.
C25_HeaderRecognition ==
    [][ ConsumesLine =>
            (NewSection <=> (/\ ~in_code_block
                             /\ ~IsFenceLine(lines[li])
                             /\ HeaderShape(lines[li], Whitespace)))
      ]_vars

\* the line "#<tab>T" has just started a section
C25_Witness ==
    /\ pc = "scan"
    /\ li = 2
    /\ lines[1] = <<"#", "\t", "T">>
    /\ current_header = lines[1]
    /\ current_section = << lines[1] >>
    /\ ~in_code_block

\* ------------------------------------------------------------------
\* Sections, their headers and their order
\* ------------------------------------------------------------------

\* line k of the document is a header line: it matches the header pattern
\* and the fence state is false when the scan reaches it
Recognised(k) ==
    ~IsFenceLine(lines[k]) /\ StartsSection(InFenceBefore(lines, k), lines[k])

\* the line the section under way at line k began with: the last header
\* line before k, line 1 when there is none
StartAt(k) ==
    LET hs == { j \in 1..(k - 1) : Recognised(j) }
    IN  IF hs = {} THEN 1 ELSE CHOOSE j \in hs : \A other \in hs : other <= j

\* the header that owns the section under way at line k: the trimmed last
\* header line before k, empty before the first header
OwnerAt(k) ==
    IF \E j \in 1..(k - 1) : Recognised(j) THEN strip(lines[StartAt(k)]) ELSE << >>

\* the section under way holds the lines since its header line and is
\* owned by that header
SectionUnderItsHeader ==
    /\ pc = "scan" =>
          /\ current_header = OwnerAt(li)
          /\ current_section = SubSeq(lines, StartAt(li), li - 1)
    /\ pc = "split" =>
          /\ current_header = OwnerAt(li)
          /\ section_text = SectionText(SubSeq(lines, StartAt(li), li - 1))

\* C26: section pairing and order.  The output only grows at its end; a
\* section is emitted where it ends, at the next header line or at the end
\* of the input, before the new header takes effect, and with the header
\* that owns it: the last header line before its end, the empty header for
\* the content before the first header line.  A section that fits is
\* appended as it is; the pieces of a split section are emitted together
\* and every continuation piece is prefixed with the section's own header.
C26_SectionPairing ==
    /\ []SectionUnderItsHeader
    /\ [][ /\ pc \in {"scan", "split"} =>
                /\ Len(chunks') >= Len(chunks)
                /\ SubSeq(chunks', 1, Len(chunks)) = chunks
           /\ (pc = "scan" /\ ~SectionEnds) => chunks' = chunks
           /\ (HandsOver /\ pc' # "split") =>
                Emitted = << SectionText(SubSeq(lines, StartAt(li), li - 1)) >>
           /\ (HandsOver /\ pc' = "split") => current_header' = OwnerAt(li)
           /\ SplitReturns =>
                /\ Emitted = InjectAll(sub_chunks', OwnerAt(li))
                /\ \A k \in 2..Len(Emitted) :
                       startswith(Emitted[k], OwnerAt(li))
                /\ li <= Len(lines) => current_header' = strip(lines[li])
         ]_vars

\* a document of a line of content and a header section has been returned:
\* the content came first, under the empty header, the header section was
\* split and its continuation piece carries that section's header
C26_Witness ==
    /\ pc = "done"
    /\ Len(lines) >= 2
    /\ ~header_match(lines[1])
    /\ header_match(lines[2])
    /\ current_header = strip(lines[2])
    /\ Len(chunks) >= 3
    /\ chunks[1] = strip(lines[1])
    /\ startswith(current_header, chunks[2])
    /\ startswith(chunks[3], header_prefix(current_header))

\* ------------------------------------------------------------------
\* Chunks and section boundaries
\* ------------------------------------------------------------------

\* the line under the cursor is a header line outside a fenced region
HeaderLineOutsideFence ==
    /\ ~InFenceBefore(lines, li)
    /\ ~IsFenceLine(lines[li])
    /\ HeaderShape(lines[li], Whitespace)

\* the section that ends here is its header line and nothing else
HeaderOnly ==
    /\ HandsOver
    /\ current_header # << >>
    /\ SectionText(current_section) = current_header

\* every chunk is made of the text of one section: a header line outside a
\* fenced region starts a new section, the section under way is emitted
\* first, a piece is a trimmed slice of the one section being split, and
\* the chunks emitted for a section are its pieces, the first chunk of a
\* header section starting at the first character of its header line
ChunksWithinSection ==
    /\ (ConsumesLine /\ HeaderLineOutsideFence) => NewSection
    /\ (pc = "scan" /\ li <= Len(lines) /\ HeaderLineOutsideFence
          /\ SectionText(current_section) # << >>) =>
            \/ Emitted = << SectionText(current_section) >>
            \/ pc' = "split" /\ section_text' = SectionText(current_section) /\ li' = li
    /\ pc = "split" =>
            Piece = strip(Slice(section_text, start,
                                IF pc' = "split" THEN start' ELSE Len(section_text)))
    /\ SplitReturns =>
            /\ Len(Emitted) = Len(sub_chunks')
            /\ \A k \in 1..Len(Emitted) :
                   Emitted[k] \in { sub_chunks'[k],
                                    header_prefix(current_header) \o sub_chunks'[k] }
            /\ Emitted # << >>
            /\ startswith(section_text, Emitted[1])
            /\ section_text[1] = SectionText(SubSeq(lines, StartAt(li), li - 1))[1]

\* C27 as stated: no chunk spans two sections, and a section that is only
\* its header line is emitted as one chunk of its own, the header.
C27_HeaderOnlyIsOneChunk ==
    [][ /\ ChunksWithinSection
        /\ HeaderOnly => (pc' # "split" /\ Emitted = << current_header >>)
      ]_vars

\* C27, amended: no chunk spans two sections; a section that is only its
\* header line is emitted as one chunk of its own when the header fits in
\* chunk_size, and is split like any oversized section when it does not,
\* into chunks that hold text of that header line only.
C27_NoChunkSpansSections ==
    [][ /\ ChunksWithinSection
        /\ (HeaderOnly /\ Fits(current_header, chunk_size))
              => (pc' # "split" /\ Emitted = << current_header >>)
        /\ (HeaderOnly /\ ~Fits(current_header, chunk_size))
              => (pc' = "split" /\ section_text' = current_header /\ chunks' = chunks)
      ]_vars

\* two header lines in a row have been scanned; the first, alone in its
\* section, is the last chunk emitted
C27_Witness ==
    /\ pc = "scan"
    /\ li > 2
    /\ header_match(lines[li - 2])
    /\ header_match(lines[li - 1])
    /\ ~in_code_block
    /\ current_section = << lines[li - 1] >>
    /\ chunks # << >>
    /\ chunks[Len(chunks)] = strip(lines[li - 2])

\* ------------------------------------------------------------------
\* The language tag of a block
\* ------------------------------------------------------------------

\* the text between the two delimiters of the pair under the cursor
Region ==
    Slice(markdown_content, backtick_positions[pair_i + 1] + FenceLen,
          backtick_positions[pair_i + 2])

\* the region up to its first newline, all of it when it has none
FirstLine(region) ==
    IF find(region, <<NL>>, 0) = -1 THEN region
    ELSE Slice(region, 0, find(region, <<NL>>, 0))

\* the region after its first newline, nothing when it has none
AfterFirstLine(region) ==
    IF find(region, <<NL>>, 0) = -1 THEN << >>
    ELSE SliceFrom(region, find(region, <<NL>>, 0) + 1)

\* trimmed, the text is non-empty, holds no space and is shorter than 20
TagLike(s) ==
    /\ strip(s) # << >>
    /\ \A k \in 1..Len(strip(s)) : strip(s)[k] # SP
    /\ Len(strip(s)) < MaxLanguageLen

\* this pass of the pairing loop gives the block under the cursor the
\* language and code of `expected`: it appends a record with them, or no
\* record when the code is shorter than min_length
Classifies(expected) ==
    IF Len(expected.code) < min_length THEN code_blocks' = code_blocks
    ELSE /\ Len(code_blocks') = Len(code_blocks) + 1
         /\ code_blocks'[Len(code_blocks')].language = expected.language
         /\ code_blocks'[Len(code_blocks')].code = expected.code

\* a pass of the pairing loop is taken
Pairing == pc = "pair" /\ pair_i < Len(backtick_positions) - 1

\* C28 as stated: the language is the trimmed text up to the first newline
\* when that text is tag-like, and the code the trimmed remainder after the
\* first newline; otherwise the language is empty and the code the whole
\* region trimmed.
C28_LanguageOfFirstLine ==
    [][ Pairing =>
            Classifies(IF TagLike(FirstLine(Region))
                       THEN [language |-> strip(FirstLine(Region)),
                             code |-> strip(AfterFirstLine(Region))]
                       ELSE [language |-> << >>, code |-> strip(Region)])
      ]_vars

\* C28, amended: the language is the trimmed first line when the region
\* holds a newline and its first line is, trimmed, non-empty, without a
\* space and shorter than 20 characters, and the code is then the trimmed
\* remainder after the first newline; otherwise, a region of one line
\* included, the language is empty and the code the whole region trimmed.
C28_LanguageTag ==
    [][ Pairing =>
            Classifies(IF find(Region, <<NL>>, 0) # -1 /\ TagLike(FirstLine(Region))
                       THEN [language |-> strip(FirstLine(Region)),
                             code |-> strip(AfterFirstLine(Region))]
                       ELSE [language |-> << >>, code |-> strip(Region)])
      ]_vars

\* the block with an opening line of 19 characters was returned with that
\* line as its language
C28_Witness ==
    /\ pc = "returned"
    /\ markdown_content = LanguageDoc(Repeat("l", MaxLanguageLen - 1))
    /\ Len(code_blocks) = 1
    /\ code_blocks[1].language = Repeat("l", MaxLanguageLen - 1)
    /\ code_blocks[1].code = <<"c">>

\* ------------------------------------------------------------------
\* Discarded blocks and the pairing of the delimiters
\* ------------------------------------------------------------------

\* the record's code is long enough for the call under way
LongEnough(record) == Len(record.code) >= min_length

\* what the call under way returns with min_length = 0: a record for
\* every pair of delimiters
AllBlocks == extract_code_blocks(markdown_content, 0)

\* C29: discarding does not shift the pairing.  Every pass of the pairing
\* loop consumes two delimiters, whether it appends a record or discards
\* the block, the records appended so far are those of the pairs passed
\* that are long enough, and the sequence returned for min_length = m is
\* the subsequence of the one returned for min_length = 0 whose code has
\* length >= m.
C29_DiscardKeepsPairing ==
    /\ [](pc = "returned" => code_blocks = SelectSeq(AllBlocks, LongEnough))
    /\ [](pc = "pair" =>
            /\ pair_i % 2 = 0
            /\ code_blocks = SelectSeq(SubSeq(AllBlocks, 1, pair_i \div 2), LongEnough))
    /\ [][ Pairing =>
              /\ pair_i' = pair_i + 2
              /\ code_blocks' \in { code_blocks,
                                    Append(code_blocks, AllBlocks[(pair_i \div 2) + 1]) }
         ]_vars

\* a call has returned whose first block was discarded as too short and
\* whose second block is the first record returned
C29_Witness ==
    /\ pc = "returned"
    /\ min_length > 0
    /\ Len(AllBlocks) >= 2
    /\ ~LongEnough(AllBlocks[1])
    /\ code_blocks # << >>
    /\ code_blocks[1] = AllBlocks[2]

\* ------------------------------------------------------------------
\* Re-injection of the header
\* ------------------------------------------------------------------

\* C30: re-injection is exact and non-duplicating.  Of the pieces of a
\* split section with non-empty header H, a continuation piece that
\* already starts with H is emitted unchanged and any other continuation
\* piece as exactly H, a newline and the trimmed piece; the first piece is
\* emitted unchanged, and so is every piece of a section with empty
\* header.
C30_ExactReinjection ==
    [][ SplitReturns =>
            /\ Len(Emitted) = Len(sub_chunks')
            /\ \A k \in 1..Len(Emitted) :
                   /\ sub_chunks'[k] = strip(sub_chunks'[k])
                   /\ Emitted[k] =
                         IF k = 1 \/ current_header = << >>
                               \/ (/\ Len(sub_chunks'[k]) >= Len(current_header)
                                   /\ \A j \in 1..Len(current_header) :
                                          sub_chunks'[k][j] = current_header[j])
                         THEN sub_chunks'[k]
                         ELSE current_header \o <<NL>> \o sub_chunks'[k]
      ]_vars

\* a split section with a header has been returned; one continuation piece
\* already started with the header and was emitted as it was, another got
\* the header and a newline put before it
C30_Witness ==
    /\ pc = "done"
    /\ current_header # << >>
    /\ Len(sub_chunks) >= 3
    /\ chunks = InjectAll(sub_chunks, current_header)
    /\ \E k \in 2..Len(sub_chunks) :
          /\ startswith(sub_chunks[k], current_header)
          /\ chunks[k] = sub_chunks[k]
    /\ \E k \in 2..Len(sub_chunks) :
          /\ ~startswith(sub_chunks[k], current_header)
          /\ chunks[k] = current_header \o <<NL>> \o sub_chunks[k]

====
